---- MODULE Spec2Model ----
(***************************************************************************)
(* The TradingView -> Bitget webhook of src/server.py as a state machine.  *)
(*                                                                         *)
(* Text that the code transforms (str(), lower(), strip(), endswith(),     *)
(* replace(), json.dumps) is a sequence of one-character strings, so that  *)
(* the transformations are computed, not tabulated.  Text that the code    *)
(* only passes along (dictionary keys, the URL, the credentials, error     *)
(* messages, the exchange's response text) is a TLA+ string.               *)
(***************************************************************************)
EXTENDS Integers, Sequences, FiniteSets, TLC

VARIABLES
    env,        \* process configuration read at import: credentials, live switch
    now,        \* the wall clock, in milliseconds (time.time() * 1000)
    pc,         \* position of the handler: "idle", "posting", "done"
    raw,        \* the request body of the delivery being handled
    response,   \* what the caller of POST /tv receives
    outbox,     \* the HTTP requests issued to the exchange for this delivery
    reply       \* what came back from the exchange: an HTTP response or an error

vars == <<env, now, pc, raw, response, outbox, reply>>

\* Bound of the model: the clock readings 0 .. MaxTime.
MaxTime == 1

(***************************************************************************)
(* Python text operations.                                                 *)
(***************************************************************************)
UpperCase == <<"A","B","C","D","E","F","G","H","I","J","K","L","M",
               "N","O","P","Q","R","S","T","U","V","W","X","Y","Z">>
LowerCase == <<"a","b","c","d","e","f","g","h","i","j","k","l","m",
               "n","o","p","q","r","s","t","u","v","w","x","y","z">>

\* The characters str.strip() removes (ASCII part of str.isspace()).
Whitespace == {" ", "\t", "\n", "\r", "\f"}

LowerChar(c) ==
    IF \E i \in 1..Len(UpperCase) : UpperCase[i] = c
    THEN LowerCase[CHOOSE i \in 1..Len(UpperCase) : UpperCase[i] = c]
    ELSE c

\* str.lower()
Lower(s) == [i \in 1..Len(s) |-> LowerChar(s[i])]

RECURSIVE LStrip(_)
LStrip(s) ==
    IF s # <<>> /\ s[1] \in Whitespace THEN LStrip(Tail(s)) ELSE s

RECURSIVE RStrip(_)
RStrip(s) ==
    IF s # <<>> /\ s[Len(s)] \in Whitespace
    THEN RStrip(SubSeq(s, 1, Len(s) - 1))
    ELSE s

\* str.strip()
Strip(s) == RStrip(LStrip(s))

\* str.endswith(suffix)
EndsWith(s, suffix) ==
    /\ Len(suffix) <= Len(s)
    /\ SubSeq(s, Len(s) - Len(suffix) + 1, Len(s)) = suffix

\* str.replace(old, new): every non-overlapping occurrence, left to right.
RECURSIVE Replace(_, _, _)
Replace(s, old, new) ==
    IF Len(s) < Len(old) THEN s
    ELSE IF SubSeq(s, 1, Len(old)) = old
         THEN new \o Replace(SubSeq(s, Len(old) + 1, Len(s)), old, new)
         ELSE <<s[1]>> \o Replace(Tail(s), old, new)

Digits == <<"0","1","2","3","4","5","6","7","8","9">>

\* str(int) for n >= 0
RECURSIVE NatToStr(_)
NatToStr(n) ==
    IF n < 10 THEN <<Digits[n + 1]>>
    ELSE NatToStr(n \div 10) \o <<Digits[(n % 10) + 1]>>

\* str(int)
IntToStr(n) == IF n < 0 THEN <<"-">> \o NatToStr(-n) ELSE NatToStr(n)

(***************************************************************************)
(* JSON values as json.loads returns them, and the dictionary `data`.      *)
(* A dictionary is a function on Keys; Absent marks a key that is not in   *)
(* the dictionary (null is a value, JNull, and the key is then present).   *)
(***************************************************************************)
JStr(s)  == [t |-> "str",    s |-> s,    n |-> 0, b |-> FALSE]
JInt(n)  == [t |-> "int",    s |-> <<>>, n |-> n, b |-> FALSE]
JBool(b) == [t |-> "bool",   s |-> <<>>, n |-> 0, b |-> b]
JNull    == [t |-> "null",   s |-> <<>>, n |-> 0, b |-> FALSE]
Absent   == [t |-> "absent", s |-> <<>>, n |-> 0, b |-> FALSE]

\* str(v)
Str(v) ==
    CASE v.t = "str"  -> v.s
      [] v.t = "int"  -> IntToStr(v.n)
      [] v.t = "bool" -> IF v.b THEN <<"T","r","u","e">> ELSE <<"F","a","l","s","e">>
      [] OTHER        -> <<"N","o","n","e">>

\* bool(v)
Bool(v) ==
    CASE v.t = "str"  -> v.s # <<>>
      [] v.t = "int"  -> v.n # 0
      [] v.t = "bool" -> v.b
      [] OTHER        -> FALSE

Keys == {"token", "type", "symbol", "action", "qty", "order_type", "reduce_only",
         "tv_order_id", "tv_comment", "price", "force",
         "tp_long", "tp_exec_long", "sl_long",
         "tp_short", "tp_exec_short", "sl_short"}

\* k in data
Has(data, k) == data[k] # Absent

\* data.get(k, default)
Get(data, k, default) == IF Has(data, k) THEN data[k] ELSE default

(***************************************************************************)
(* Module constants of server.py.                                          *)
(***************************************************************************)
TV_WEBHOOK_TOKEN == <<"C","H","A","N","G","E","_","M","E">>
BITGET_BASE_URL  == "https://api.bitget.com"
PRODUCT_TYPE     == <<"U","S","D","T","-","F","U","T","U","R","E","S">>
MARGIN_MODE      == <<"c","r","o","s","s","e","d">>
MARGIN_COIN      == <<"U","S","D","T">>

ExitLong  == <<"E","x","i","t"," ","L","o","n","g">>
ExitShort == <<"E","x","i","t"," ","S","h","o","r","t">>
TV_SKIP_ORDER_IDS_LongOnly == {ExitLong}
TV_SKIP_ORDER_IDS == {ExitLong, ExitShort}

NYSessionClose == <<"N","Y"," ","S","e","s","s","i","o","n"," ","C","l","o","s","e">>
DailyClose     == <<"D","a","i","l","y"," ","C","l","o","s","e">>
TV_EXECUTE_COMMENTS == {NYSessionClose, DailyClose}

Suffixes == << <<"_","U","M","C","B","L">>,
               <<"_","D","M","C","B","L">>,
               <<"_","C","M","C","B","L">>,
               <<"_","S","U","M","C","B","L">> ,
               <<"_","S","D","M","C","B","L">>,
               <<"_","S","C","M","C","B","L">> >>

(***************************************************************************)
(* Helpers of server.py.                                                   *)
(***************************************************************************)
\* The clock read once, when the module is imported.
now_ms_at_import == IntToStr(0)
\* now_ms(): the clock read when the handler signs.
now_ms == IntToStr(now)

\* normalize_symbol: the first suffix of the list the symbol ends with decides.
RECURSIVE normalize_from(_, _)
normalize_from(symbol, i) ==
    IF i > Len(Suffixes) THEN symbol
    ELSE IF EndsWith(symbol, Suffixes[i])
         THEN Replace(symbol, Suffixes[i], <<>>)
         ELSE normalize_from(symbol, i + 1)

normalize_symbol(symbol) == normalize_from(symbol, 1)

\* as_str_or_none: None, or the stripped text when it is not empty.
None    == [some |-> FALSE, s |-> <<>>]
Some(s) == [some |-> TRUE,  s |-> s]

as_str_or_none_unstripped(v) ==
    IF v.t = "null" THEN None
    ELSE IF Str(v) # <<>> THEN Some(Str(v)) ELSE None

as_str_or_none(v) ==
    IF v.t = "null" THEN None
    ELSE IF Strip(Str(v)) # <<>> THEN Some(Strip(Str(v))) ELSE None

\* Truth value of an Optional[str]
Truthy(o) == o.some /\ o.s # <<>>

(***************************************************************************)
(* tv_webhook: the values the handler derives from `data`.                 *)
(***************************************************************************)
required == <<"symbol", "action", "qty">>

\* [k for k in required if k not in data]
missing(data) == SelectSeq(required, LAMBDA k : ~Has(data, k))

symbol(data)     == normalize_symbol(Str(data["symbol"]))
action(data)     == Lower(Str(data["action"]))
qty(data)        == Str(data["qty"])
order_type(data) == Lower(Str(Get(data, "order_type", JStr(<<"m","a","r","k","e","t">>))))

reduce_only_bool(data) == Bool(Get(data, "reduce_only", JBool(FALSE)))

is_long(data) == action(data) = <<"b","u","y">>

tv_order_id(data) == Strip(Str(Get(data, "tv_order_id", JStr(<<>>))))
tv_comment(data)  == Strip(Str(Get(data, "tv_comment", JStr(<<>>))))

is_limit(data) == order_type(data) = <<"l","i","m","i","t">>

\* Hedge mode
trade_side_open(data) == <<"o","p","e","n">>
trade_side(data) ==
    IF reduce_only_bool(data) THEN <<"c","l","o","s","e">> ELSE <<"o","p","e","n">>
reduce_only(data) ==
    IF reduce_only_bool(data) THEN <<"Y","E","S">> ELSE <<"N","O">>

\* LIMIT fields: the price as read, and as kept after the order-type branch.
price_read(data) == as_str_or_none(Get(data, "price", JNull))
price(data) == IF is_limit(data) THEN price_read(data) ELSE None
force(data) == Lower(Str(Get(data, "force", JStr(<<"g","t","c">>))))

\* TP / SL routing (long vs short)
tp_trigger_long(data) == as_str_or_none(Get(data, "tp_long", JNull))
tp_trigger(data) ==
    IF is_long(data) THEN as_str_or_none(Get(data, "tp_long", JNull))
                     ELSE as_str_or_none(Get(data, "tp_short", JNull))
tp_exec(data) ==
    IF is_long(data) THEN as_str_or_none(Get(data, "tp_exec_long", JNull))
                     ELSE as_str_or_none(Get(data, "tp_exec_short", JNull))
sl_trigger(data) ==
    IF is_long(data) THEN as_str_or_none(Get(data, "sl_long", JNull))
                     ELSE as_str_or_none(Get(data, "sl_short", JNull))

(***************************************************************************)
(* The Bitget order: a dictionary from keys to text.                       *)
(***************************************************************************)
EmptyDict == [k \in {} |-> <<>>]

\* body[k] = v when the condition holds
SetIf(cond, k, v) == IF cond THEN k :> v ELSE EmptyDict

body(data) ==
    [ symbol      |-> symbol(data),
      productType |-> PRODUCT_TYPE,
      marginMode  |-> MARGIN_MODE,
      marginCoin  |-> MARGIN_COIN,
      size        |-> qty(data),
      side        |-> action(data),
      tradeSide   |-> trade_side(data),
      orderType   |-> order_type(data),
      reduceOnly  |-> reduce_only(data) ]
    @@ SetIf(is_limit(data), "price", price(data).s)
    @@ SetIf(is_limit(data), "force", force(data))
    @@ SetIf(Truthy(tp_trigger(data)), "presetStopSurplusPrice", tp_trigger(data).s)
    @@ SetIf(Truthy(sl_trigger(data)), "presetStopLossPrice", sl_trigger(data).s)
    @@ SetIf(Truthy(tp_exec(data)), "presetStopSurplusExecutePrice", tp_exec(data).s)

\* The order in which the handler inserts the keys (a dict keeps it).
InsertionOrder ==
    <<"symbol", "productType", "marginMode", "marginCoin", "size", "side",
      "tradeSide", "orderType", "reduceOnly", "price", "force",
      "presetStopSurplusPrice", "presetStopLossPrice",
      "presetStopSurplusExecutePrice">>

\* sorted(keys): Python orders str by code point.
SortedOrder ==
    <<"force", "marginCoin", "marginMode", "orderType", "presetStopLossPrice",
      "presetStopSurplusExecutePrice", "presetStopSurplusPrice", "price",
      "productType", "reduceOnly", "side", "size", "symbol", "tradeSide">>

\* json.dumps of a str: quotes, with '"' and '\' escaped.
RECURSIVE Escape(_)
Escape(s) ==
    IF s = <<>> THEN <<>>
    ELSE (IF s[1] \in {"\"", "\\"} THEN <<"\\", s[1]>> ELSE <<s[1]>>)
         \o Escape(Tail(s))

Quoted(s) == <<"\"">> \o s \o <<"\"">>

\* The items "key":"value" of obj for the keys in the given order, joined by ","
RECURSIVE Items(_, _)
Items(obj, keys) ==
    IF keys = <<>> THEN <<>>
    ELSE Quoted(<<keys[1]>>) \o <<":">> \o Quoted(Escape(obj[keys[1]]))
         \o (IF Len(keys) > 1 THEN <<",">> ELSE <<>>)
         \o Items(obj, Tail(keys))

Dumps(obj, order) ==
    <<"{">> \o Items(obj, SelectSeq(order, LAMBDA k : k \in DOMAIN obj)) \o <<"}">>

\* json.dumps(obj) with the default separators and no sort_keys
compact_json_unsorted(obj) == Dumps(obj, InsertionOrder)

\* compact_json: json.dumps(obj, separators=(",", ":"), sort_keys=True)
compact_json(obj) == Dumps(obj, SortedOrder)

\* sign_bitget: base64(HMAC-SHA256(secret, ts + method + path + body)).  The MAC
\* is kept symbolic: equal exactly when key and message are equal.
sign_bitget(ts, method, path, body_str) ==
    [ alg |-> "base64(HMAC-SHA256)",
      key |-> env.BITGET_API_SECRET,
      msg |-> ts \o <<method>> \o <<path>> \o body_str ]

path == "/api/v2/mix/order/place-order"
url  == <<BITGET_BASE_URL, path>>

headers(sign, ts) ==
    [ AccessKey        |-> env.BITGET_API_KEY,
      AccessSign       |-> sign,
      AccessTimestamp  |-> ts,
      AccessPassphrase |-> env.BITGET_API_PASSPHRASE,
      ContentType      |-> "application/json",
      locale           |-> "en-US" ]

\* The arguments of requests.post(url, headers=headers, data=body_str, timeout=15)
PostRequest(data) ==
    LET body_str == compact_json(body(data))
        ts       == now_ms
        sign     == sign_bitget(ts, "POST", path, body_str)
    IN  [ url     |-> url,
          headers |-> headers(sign, ts),
          data    |-> body_str,
          timeout |-> 15 ]

(***************************************************************************)
(* Responses to the caller of POST /tv.                                    *)
(***************************************************************************)
\* raise HTTPException(status_code=code, detail=...)
HTTPException(code, msg, args) ==
    [code |-> code, body |-> [detail |-> [msg |-> msg, args |-> args]]]

\* return {...}: FastAPI answers 200 with the dictionary as JSON.
Ok(dict) == [code |-> 200, body |-> dict]

\* An exception the handler does not catch: the framework answers 500.
Unhandled(exc) ==
    [code |-> 500, body |-> [error |-> "Internal Server Error", exc |-> exc]]

NoResponse == [code |-> 0, body |-> [none |-> TRUE]]

\* The outcome of requests.post: a response r, or an exception e.
NoReply          == [kind |-> "none",  status |-> 0, text |-> "", error |-> ""]
HttpReply(st, t) == [kind |-> "http",  status |-> st, text |-> t, error |-> ""]
ErrorReply(e)    == [kind |-> "error", status |-> 0, text |-> "", error |-> e]

(***************************************************************************)
(* Request bodies.  req.json() is json.loads of the body: it raises on     *)
(* text that is not JSON, returns a dict for a JSON object, and a str for  *)
(* a JSON string, also when that string's content is itself JSON text.     *)
(***************************************************************************)
EmptyData == [k \in Keys |-> Absent]

Object(d)   == [kind |-> "object",  obj |-> d]
Wrapped(d)  == [kind |-> "string",  obj |-> d]
InvalidBody == [kind |-> "invalid", obj |-> EmptyData]
NoRequest   == [kind |-> "none",    obj |-> EmptyData]

(***************************************************************************)
(* tv_webhook up to its return, its raise, or its call of requests.post.   *)
(* The result says whether the POST is issued, and the response otherwise. *)
(***************************************************************************)
Returns(r) == [post |-> FALSE, response |-> r]
Posts      == [post |-> TRUE,  response |-> NoResponse]

CredentialsSet ==
    /\ env.BITGET_API_KEY # ""
    /\ env.BITGET_API_SECRET # ""
    /\ env.BITGET_API_PASSPHRASE # ""

\* if not BITGET_LIVE_TRADING: return safe; else requests.post(...)
Dispatch(data) ==
    IF ~env.BITGET_LIVE_TRADING
    THEN Returns(Ok([ok |-> TRUE, mode |-> "safe", would_send |-> body(data)]))
    ELSE Posts

\* if order_type == "limit": if not price: raise 400
LimitCheckUnstripped(data) ==
    IF is_limit(data) /\ ~Truthy(as_str_or_none_unstripped(Get(data, "price", JNull)))
    THEN Returns(HTTPException(400, "Missing price for limit order", <<>>))
    ELSE Dispatch(data)
LimitCheck(data) ==
    IF is_limit(data) /\ ~Truthy(price_read(data))
    THEN Returns(HTTPException(400, "Missing price for limit order", <<>>))
    ELSE Dispatch(data)

\* if tv_order_id in TV_SKIP_ORDER_IDS: return skipped
Routing(data) ==
    IF tv_order_id(data) \in TV_SKIP_ORDER_IDS
    THEN Returns(Ok([ok |-> TRUE, mode |-> "skipped"]))
    ELSE LimitCheck(data)

Handle(data) ==
    IF Get(data, "token", JNull) # JStr(TV_WEBHOOK_TOKEN)
    THEN Returns(HTTPException(401, "Invalid token", <<>>))
    ELSE IF Get(data, "type", JNull) # JStr(<<"o","r","d","e","r">>)
    THEN Returns(Ok([ok |-> TRUE, mode |-> "ignored"]))
    ELSE IF missing(data) # <<>>
    THEN Returns(HTTPException(400, "Missing fields", missing(data)))
    ELSE IF ~CredentialsSet
    THEN Returns(HTTPException(500, "Missing Bitget API credentials", <<>>))
    ELSE Routing(data)

\* data = await req.json(); then the handler proper
Decode(req) ==
    CASE req.kind = "invalid" -> Returns(Unhandled("JSONDecodeError"))
      [] req.kind = "string"  -> Returns(Unhandled("AttributeError"))
      [] OTHER                -> Handle(req.obj)

(***************************************************************************)
(* The deliveries the model sends: families of payloads, each varying the  *)
(* fields one stage of the handler reads around a valid market buy.        *)
(***************************************************************************)
\* Bound of the model: a symbol is made of 1 .. MaxPieces pieces.
MaxPieces == 2

T_order  == <<"o","r","d","e","r">>
T_buy    == <<"b","u","y">>
T_limit  == <<"l","i","m","i","t">>
T_market == <<"m","a","r","k","e","t">>

Base ==
    [EmptyData EXCEPT !["token"]  = JStr(TV_WEBHOOK_TOKEN),
                      !["type"]   = JStr(T_order),
                      !["symbol"] = JStr(<<"B","_","U","M","C","B","L">>),
                      !["action"] = JStr(T_buy),
                      !["qty"]    = JStr(<<"1">>)]

Presence(v) == {Absent, v}

\* Token, type filter, required fields, with and without a skip identifier.
GateCases ==
    { [Base EXCEPT !["token"] = tk, !["type"] = ty, !["symbol"] = sy,
                   !["action"] = ac, !["qty"] = q, !["tv_order_id"] = id] :
        tk \in {JStr(TV_WEBHOOK_TOKEN), JStr(<<"x">>), Absent},
        ty \in {JStr(T_order), JStr(<<"a","l","e","r","t">>), Absent},
        sy \in Presence(Base["symbol"]),
        ac \in Presence(Base["action"]),
        q  \in Presence(Base["qty"]),
        id \in Presence(JStr(ExitLong)) }

\* Skip list, order type, price, force, reduce-only, side.
RouteCases ==
    { [Base EXCEPT !["action"] = ac, !["order_type"] = ot, !["reduce_only"] = ro,
                   !["tv_order_id"] = id, !["price"] = pr, !["force"] = fo] :
        ac \in {JStr(T_buy), JStr(<<"S","E","L","L">>)},
        ot \in {Absent, JStr(T_market), JStr(<<"L","i","m","i","t">>)},
        ro \in {Absent, JBool(TRUE), JStr(<<"f","a","l","s","e">>)},
        id \in {Absent, JStr(ExitLong), JStr(<<" ">> \o ExitShort \o <<" ">>),
                JStr(<<"L","o","n","g">>)},
        pr \in {Absent, JNull, JStr(<<" ">>), JStr(<<" ","9"," ">>), JInt(7)},
        fo \in Presence(JStr(<<"I","O","C">>)) }

\* Values of reduce_only.
ReduceOnlyValues ==
    {Absent, JNull, JBool(TRUE), JBool(FALSE), JInt(0), JInt(1), JInt(2)}
    \cup { JStr(t) : t \in { <<>>, <<" ">>, <<"0">>, <<"1">>, <<"y">>, <<"Y">>,
                             <<"n","o">>, <<"o","n">>, <<"O","n">>,
                             <<"o","f","f">>, <<"y","e","s">>, <<"Y","e","s">>,
                             <<"t","r","u","e">>, <<"T","R","U","E">>,
                             <<"f","a","l","s","e">>, <<"F","a","l","s","e">> } }

CoerceCases ==
    { [Base EXCEPT !["action"] = ac, !["order_type"] = ot, !["price"] = JStr(<<"9">>),
                   !["reduce_only"] = ro] :
        ac \in {JStr(<<"B","u","y">>), JStr(<<"s","e","l","l">>)},
        ot \in {Absent, JStr(T_limit)},
        ro \in ReduceOnlyValues }

\* Take-profit / stop-loss groups.
TpSlCases ==
    { [Base EXCEPT !["action"] = ac, !["order_type"] = ot, !["price"] = JStr(<<"9">>),
                   !["tp_long"] = tl, !["tp_exec_long"] = el, !["sl_long"] = sl,
                   !["tp_short"] = ts, !["tp_exec_short"] = es, !["sl_short"] = ss] :
        ac \in {JStr(T_buy), JStr(<<"s","e","l","l">>)},
        ot \in {Absent, JStr(T_limit)},
        tl \in {Absent, JStr(<<" ","5"," ">>), JStr(<<" ">>)},
        el \in Presence(JStr(<<"6">>)),
        sl \in Presence(JInt(4)),
        ts \in {Absent, JStr(<<"3">>), JNull},
        es \in Presence(JStr(<<"2"," ">>)),
        ss \in Presence(JStr(<<"8">>)) }

\* Symbols: 1 .. MaxPieces pieces, among them contract-type suffixes.
Pieces == { <<"B">>, <<"_","U">>,
            <<"_","U","M","C","B","L">>, <<"_","D","M","C","B","L">>,
            <<"_","S","U","M","C","B","L">> }

RECURSIVE SymbolTexts(_)
SymbolTexts(n) ==
    IF n = 0 THEN {<<>>}
    ELSE SymbolTexts(n - 1) \cup { s \o p : s \in SymbolTexts(n - 1), p \in Pieces }

SymbolCases ==
    { [Base EXCEPT !["symbol"] = JStr(s), !["qty"] = q, !["tv_comment"] = co] :
        s  \in SymbolTexts(MaxPieces),
        q  \in {JStr(<<"1">>), JInt(12)},
        co \in Presence(JStr(DailyClose)) }

Payloads == GateCases \cup RouteCases \cup CoerceCases \cup TpSlCases \cup SymbolCases

\* Bodies that are a JSON string wrapping the JSON text of a payload.
WrappedPayloads ==
    { Base, [Base EXCEPT !["token"] = JStr(<<"x">>)],
      [Base EXCEPT !["type"] = JStr(<<"a","l","e","r","t">>)],
      [Base EXCEPT !["tv_order_id"] = JStr(ExitLong)] }

Requests ==
    { Object(d) : d \in Payloads } \cup { Wrapped(d) : d \in WrappedPayloads }
    \cup { InvalidBody }

\* What the exchange can answer, and how the transport can fail.
ExchangeStatuses == {200, 400, 503}
ExchangeTexts    == {"{\"code\":\"00000\"}", "{\"code\":\"40001\"}"}
TransportErrors  == {"ConnectTimeout", "ConnectionError"}

(***************************************************************************)
(* The state machine.                                                      *)
(***************************************************************************)
\* The environments the model starts in: every credential set, or one unset
\* (os.getenv's default ""), with the live switch on or off.
Environments ==
    { e \in [ BITGET_API_KEY        : {"", "key"},
              BITGET_API_SECRET     : {"", "secret"},
              BITGET_API_PASSPHRASE : {"", "pass"},
              BITGET_LIVE_TRADING   : BOOLEAN ] :
        Cardinality({ c \in {"BITGET_API_KEY", "BITGET_API_SECRET",
                             "BITGET_API_PASSPHRASE"} : e[c] = "" }) <= 1 }

Init ==
    /\ env \in Environments
    /\ now = 0
    /\ pc = "idle"
    /\ raw = NoRequest
    /\ response = NoResponse
    /\ outbox = <<>>
    /\ reply = NoReply

\* POST /tv arrives: the handler runs to its return, its raise, or its POST.
TvWebhook(req) ==
    /\ pc = "idle"
    /\ raw' = req
    /\ LET result == Decode(req)
       IN  IF result.post
           THEN /\ outbox' = Append(outbox, PostRequest(req.obj))
                /\ pc' = "posting"
                /\ response' = NoResponse
           ELSE /\ response' = result.response
                /\ pc' = "done"
                /\ UNCHANGED outbox
    /\ UNCHANGED <<env, now, reply>>

\* r.ok of requests: no 4xx and no 5xx
ROk(status) == ~(400 <= status /\ status < 600)

\* requests.post returned r: return {"ok": r.ok, "status": ..., "response": r.text}
ExchangeRespondsRaising(status, text) ==
    /\ pc = "posting"
    /\ response' = IF ROk(status)
                   THEN Ok([ok |-> TRUE, status |-> status, response |-> text])
                   ELSE HTTPException(500, "HTTPError", <<>>)
    /\ reply' = HttpReply(status, text)
    /\ pc' = "done"
    /\ UNCHANGED <<env, now, raw, outbox>>
ExchangeResponds(status, text) ==
    /\ pc = "posting"
    /\ response' = Ok([ok |-> ROk(status), status |-> status, response |-> text])
    /\ reply' = HttpReply(status, text)
    /\ pc' = "done"
    /\ UNCHANGED <<env, now, raw, outbox>>

\* requests.post raised e: raise HTTPException(500, detail=str(e))
TransportFailsRetrying(e) ==
    /\ pc = "posting"
    /\ Len(outbox) < 3
    /\ outbox' = Append(outbox, outbox[1])
    /\ reply' = ErrorReply(e)
    /\ UNCHANGED <<env, now, pc, raw, response>>
TransportFails(e) ==
    /\ pc = "posting"
    /\ response' = HTTPException(500, e, <<>>)
    /\ reply' = ErrorReply(e)
    /\ pc' = "done"
    /\ UNCHANGED <<env, now, raw, outbox>>

\* The response is delivered; the server awaits the next delivery.
Return ==
    /\ pc = "done"
    /\ pc' = "idle"
    /\ raw' = NoRequest
    /\ response' = NoResponse
    /\ outbox' = <<>>
    /\ reply' = NoReply
    /\ UNCHANGED <<env, now>>

\* Time passes between deliveries.
Tick ==
    /\ pc = "idle"
    /\ now < MaxTime
    /\ now' = now + 1
    /\ UNCHANGED <<env, pc, raw, response, outbox, reply>>

Next ==
    \/ \E req \in Requests : TvWebhook(req)
    \/ \E status \in ExchangeStatuses, text \in ExchangeTexts :
           ExchangeResponds(status, text)
    \/ \E e \in TransportErrors : TransportFails(e)
    \/ Return
    \/ Tick

Spec == Init /\ [][Next]_vars

(***************************************************************************)
(* Reading the state: the delivery handled, and the order it produced.     *)
(***************************************************************************)
Data == raw.obj

\* A JSON reader for the text Dumps writes (the exchange's view of the body).
RECURSIVE ReadString(_, _)
ReadString(toks, acc) ==
    IF toks[1] = "\\" THEN ReadString(SubSeq(toks, 3, Len(toks)), Append(acc, toks[2]))
    ELSE IF toks[1] = "\"" THEN [val |-> acc, rest |-> Tail(toks)]
    ELSE ReadString(Tail(toks), Append(acc, toks[1]))

\* The <<key, value>> pairs of the text, in the order written.
RECURSIVE ReadItems(_)
ReadItems(toks) ==
    IF toks[1] = "}" THEN <<>>
    ELSE LET k    == ReadString(Tail(toks), <<>>)
             v    == ReadString(Tail(Tail(k.rest)), <<>>)
             rest == IF v.rest[1] = "," THEN Tail(v.rest) ELSE v.rest
         IN  << <<k.val[1], v.val>> >> \o ReadItems(rest)

RECURSIVE AsDict(_)
AsDict(items) ==
    IF items = <<>> THEN EmptyDict
    ELSE AsDict(Tail(items)) @@ (items[1][1] :> items[1][2])

Loads(text) == AsDict(ReadItems(Tail(text)))

KeysWritten(text) ==
    LET items == ReadItems(Tail(text)) IN [i \in 1..Len(items) |-> items[i][1]]

Rank(k) == CHOOSE i \in 1..Len(SortedOrder) : SortedOrder[i] = k

\* The handler built an order: it returned it (safe) or sent it (live).
OrderBuilt ==
    \/ Len(outbox) > 0
    \/ pc = "done" /\ "would_send" \in DOMAIN response.body

ObservedBody ==
    IF Len(outbox) > 0 THEN Loads(outbox[1].data) ELSE response.body.would_send

\* The delivery passed the token check, the type filter, the required-field
\* check and the credential check (lines 86-102).
PassedGate ==
    /\ raw.kind = "object"
    /\ Data["token"] = JStr(TV_WEBHOOK_TOKEN)
    /\ Data["type"] = JStr(T_order)
    /\ \A k \in {"symbol", "action", "qty"} : Data[k] # Absent
    /\ env.BITGET_API_KEY # "" /\ env.BITGET_API_SECRET # ""
    /\ env.BITGET_API_PASSPHRASE # ""

\* An optional field as text: empty when absent or null, trimmed otherwise.
Trimmed(k) ==
    IF Data[k] \in {Absent, JNull} THEN <<>> ELSE Strip(Str(Data[k]))

IsLimitOrder ==
    Data["order_type"] # Absent /\ Lower(Str(Data["order_type"])) = T_limit

SkipIdentifier ==
    Data["tv_order_id"] # Absent
    /\ Strip(Str(Data["tv_order_id"])) \in {ExitLong, ExitShort}

Skipped  == Ok([ok |-> TRUE, mode |-> "skipped"])
IsDetail(msg) ==
    "detail" \in DOMAIN response.body /\ response.body.detail.msg = msg

(***************************************************************************)
(* C1.  Per delivery the number of POSTs to the exchange is 0 when the     *)
(* live switch is off and at most 1 when it is on; it is 0 for a delivery  *)
(* that ends as 401, 400, 500-missing-credentials, "ignored" or "skipped"; *)
(* and once the POST is issued, whatever the exchange answers, no further  *)
(* POST is issued for that delivery.                                       *)
(***************************************************************************)
C1_Counts ==
    /\ ~env.BITGET_LIVE_TRADING => Len(outbox) = 0
    /\ Len(outbox) <= 1
    /\ pc = "done"
       /\ \/ response.code \in {400, 401}
          \/ response.code = 500 /\ IsDetail("Missing Bitget API credentials")
          \/ response.code = 200 /\ "mode" \in DOMAIN response.body
                                 /\ response.body.mode \in {"ignored", "skipped"}
       => Len(outbox) = 0

\* C1: the counts hold in every state, and no step after the POST adds a POST.
C1_AtMostOnePost ==
    /\ []C1_Counts
    /\ [][(pc \in {"posting", "done"} /\ pc' # "idle") => (outbox' = outbox)]_vars

\* A transport failure was answered with its one POST on record.
C1_Witness ==
    pc = "done" /\ reply.kind = "error" /\ Len(outbox) = 1 /\ response.code = 500

(***************************************************************************)
(* C2 as stated.  Granting the token check and the type filter: whenever   *)
(* tv_order_id is a member of the skip set the response is 200 "skipped"   *)
(* and nothing is sent, whatever symbol, action, qty and the credentials.  *)
(***************************************************************************)
C2_SkipWhatever ==
    pc = "done" /\ raw.kind = "object"
    /\ Data["token"] = JStr(TV_WEBHOOK_TOKEN) /\ Data["type"] = JStr(T_order)
    /\ Data["tv_order_id"] \in {JStr(ExitLong), JStr(ExitShort)}
    => response = Skipped /\ outbox = <<>>

(***************************************************************************)
(* C2 amended.  Whenever a delivery that passed the token check, the type  *)
(* filter, the required-field check and the credential check carries a     *)
(* tv_order_id that (as text, trimmed) is a member of the skip set, the    *)
(* response is 200 {"ok": true, "mode": "skipped"} and no order is built   *)
(* or sent, whatever the other fields hold.                                *)
(***************************************************************************)
C2_SkipAfterGate ==
    pc # "idle" /\ PassedGate /\ SkipIdentifier
    => pc = "done" /\ response = Skipped /\ outbox = <<>>

\* A limit order without price, live, skipped by its identifier alone.
C2_Witness ==
    /\ pc = "done" /\ PassedGate /\ SkipIdentifier
    /\ env.BITGET_LIVE_TRADING /\ IsLimitOrder /\ Trimmed("price") = <<>>
    /\ response = Skipped

(***************************************************************************)
(* C3.  reduce_only coerces to true exactly for boolean true, 1 and the    *)
(* strings "1", "true", "yes", "y", "on" in any letter case, and to false  *)
(* for every other value (seen in the order built: reduceOnly is "YES"     *)
(* exactly for those).                                                     *)
(***************************************************************************)
TruthyToken(v) ==
    \/ v = JBool(TRUE)
    \/ v = JInt(1)
    \/ v.t = "str" /\ Lower(v.s) \in { <<"1">>, <<"t","r","u","e">>, <<"y","e","s">>,
                                       <<"y">>, <<"o","n">> }

\* C3: reduceOnly is "YES" in the order built exactly for the truthy tokens.
C3_Coercion ==
    OrderBuilt =>
        (ObservedBody["reduceOnly"] = <<"Y","E","S">> <=> TruthyToken(Data["reduce_only"]))

(***************************************************************************)
(* C4.  normalize_symbol removes exactly the trailing known suffix, once,  *)
(* keeping every other character, and returns a symbol that ends in no     *)
(* known suffix unchanged (seen in the symbol of the order built).         *)
(***************************************************************************)
WithoutTrailingSuffix(s) ==
    IF \E i \in 1..Len(Suffixes) : EndsWith(s, Suffixes[i])
    THEN LET i == CHOOSE j \in 1..Len(Suffixes) : EndsWith(s, Suffixes[j])
         IN  SubSeq(s, 1, Len(s) - Len(Suffixes[i]))
    ELSE s

\* C4: the symbol of the order built is the input less its one trailing suffix.
C4_StripsOnce ==
    OrderBuilt => ObservedBody["symbol"] = WithoutTrailingSuffix(Str(Data["symbol"]))

(***************************************************************************)
(* C5.  A body that is not JSON is answered 400, and a body that is a JSON *)
(* string wrapping a JSON object is handled exactly as that object.        *)
(***************************************************************************)
C5_Decoding ==
    /\ pc = "done" /\ raw.kind = "invalid" => response.code = 400
    /\ pc = "done" /\ raw.kind = "string" /\ ~Handle(Data).post
       => response = Handle(Data).response

(***************************************************************************)
(* C6.  Live, once the POST is issued: any HTTP response of the exchange,  *)
(* 2xx or not, is relayed with its status code and its text unchanged and  *)
(* no error is raised; a transport failure, and only that, gives a 500     *)
(* carrying the error message.                                             *)
(***************************************************************************)
C6_Relay ==
    pc = "done" /\ Len(outbox) > 0 =>
        /\ reply.kind = "http" =>
              /\ response.code = 200
              /\ DOMAIN response.body = {"ok", "status", "response"}
              /\ response.body.status = reply.status
              /\ response.body.response = reply.text
        /\ reply.kind = "error" =>
              /\ response.code = 500
              /\ "detail" \in DOMAIN response.body
              /\ response.body.detail.msg = reply.error
        /\ response.code = 500 => reply.kind = "error"

\* The exchange answered 503 and the caller got that answer, not an error.
C6_Witness ==
    /\ pc = "done" /\ reply.kind = "http" /\ reply.status = 503
    /\ response.code = 200 /\ response.body.status = 503

(***************************************************************************)
(* C7.  In every order built, tradeSide is "close" and reduceOnly is "YES" *)
(* when the coerced reduce-only flag is true, and "open" and "NO"          *)
(* otherwise, for market and limit orders, for buy and sell.               *)
(***************************************************************************)
C7_TradeSide ==
    OrderBuilt =>
        LET flag == Bool(IF Data["reduce_only"] = Absent THEN JBool(FALSE)
                         ELSE Data["reduce_only"])
            b    == ObservedBody
        IN  /\ b["tradeSide"] =
                  IF flag THEN <<"c","l","o","s","e">> ELSE <<"o","p","e","n">>
            /\ b["reduceOnly"] = IF flag THEN <<"Y","E","S">> ELSE <<"N","O">>

\* A reduce-only limit sell was sent as a close.
C7_Witness ==
    /\ OrderBuilt /\ Len(outbox) = 1 /\ IsLimitOrder
    /\ Lower(Str(Data["action"])) # T_buy
    /\ Data["reduce_only"] = JBool(TRUE)
    /\ ObservedBody["tradeSide"] = <<"c","l","o","s","e">>

Long == Lower(Str(Data["action"])) = T_buy

Carries(b, key, field) ==
    /\ key \in DOMAIN b <=> Trimmed(field) # <<>>
    /\ key \in DOMAIN b => b[key] = Trimmed(field)

\* C9: the conditional keys of the order built follow the routed fields.
C9_ConditionalKeys ==
    OrderBuilt =>
        LET b == ObservedBody
        IN  /\ "price" \in DOMAIN b <=> IsLimitOrder
            /\ "force" \in DOMAIN b <=> IsLimitOrder
            /\ IsLimitOrder => b["price"] = Trimmed("price")
            /\ Carries(b, "presetStopSurplusPrice",
                       IF Long THEN "tp_long" ELSE "tp_short")
            /\ Carries(b, "presetStopSurplusExecutePrice",
                       IF Long THEN "tp_exec_long" ELSE "tp_exec_short")
            /\ Carries(b, "presetStopLossPrice",
                       IF Long THEN "sl_long" ELSE "sl_short")

\* A sell with both take-profit triggers set carries the short one only.
C9_Witness ==
    /\ OrderBuilt /\ ~Long
    /\ Trimmed("tp_long") = <<"5">> /\ Trimmed("tp_short") = <<"3">>
    /\ ObservedBody["presetStopSurplusPrice"] = <<"3">>
    /\ "price" \notin DOMAIN ObservedBody

(***************************************************************************)
(* C10.  For every call issued: the text sent as the HTTP body is the body *)
(* text inside the signed message; it is the serialization of the order    *)
(* built with keys in sorted order and nothing between the tokens; and the *)
(* timestamp signed is the ACCESS-TIMESTAMP header, read from the clock    *)
(* for this delivery.                                                      *)
(***************************************************************************)
RECURSIVE CompactLen(_, _)
CompactLen(obj, keys) ==
    IF keys = {} THEN 0
    ELSE LET k == CHOOSE x \in keys : TRUE
         IN  6 + Len(Escape(obj[k])) + CompactLen(obj, keys \ {k})

\* C10: what is signed is what is sent: sorted, compact, freshly stamped.
C10_SignedIsSent ==
    \A i \in 1..Len(outbox) :
        LET r    == outbox[i]
            ks   == KeysWritten(r.data)
            sent == Loads(r.data)
        IN  /\ r.headers.AccessSign.msg =
                   r.headers.AccessTimestamp \o <<"POST">> \o <<path>> \o r.data
            /\ r.headers.AccessTimestamp = IntToStr(now)
            /\ sent = body(Data)
            /\ \A a \in 1..(Len(ks) - 1) : Rank(ks[a]) < Rank(ks[a + 1])
            /\ Len(r.data) = 2 + CompactLen(sent, DOMAIN sent) + (Len(ks) - 1)

\* A second delivery, later on the clock, was signed and sent.
C10_Witness ==
    /\ pc = "posting" /\ now > 0 /\ Len(outbox) = 1
    /\ "presetStopLossPrice" \in DOMAIN Loads(outbox[1].data)

====
